---- MODULE Spec2Model ----
(***************************************************************************)
(* A model of apocalypse-radio-playground: the three track submitters      *)
(* (submit_bass.py, submit_drums.py, submit_synths.py) and the synthesis   *)
(* helpers of the three generators (generate_bass.py, generate_drums.py,   *)
(* generate_synths.py).                                                    *)
(*                                                                         *)
(* Floating-point samples are modelled as exact rationals <<n, d>> in      *)
(* lowest terms with d > 0.  Each component of the program has its own     *)
(* variables and its own specification; a component that is not running    *)
(* keeps its variables at their idle values.                               *)
(***************************************************************************)
EXTENDS Integers, Sequences, FiniteSets

VARIABLES
    s_who,      \* submitter script being run: "bass", "drums", "synth" ("off": none)
    s_idx,      \* 1-based index of the next section of the list to attempt
    s_log,      \* per attempted section: [outcome, result]
    s_success,  \* submit_bass.py success_count
    s_pc,       \* "off", "loop", "summary", "exit"
    s_exit      \* process exit status (-1 while the process runs)

subVars == <<s_who, s_idx, s_log, s_success, s_pc, s_exit>>

VARIABLES
    p_track,    \* the track buffer place_sound accumulates into
    p_before,   \* the track as it was before the last call
    p_call,     \* the last call's arguments [sound, position, volume]
    p_raised,   \* the last call raised ValueError
    p_count,    \* calls made so far
    p_sound     \* the caller's sound buffer as the last call left it

placeVars == <<p_track, p_before, p_call, p_raised, p_count, p_sound>>

VARIABLES
    e_which,    \* whose adsr_envelope: "bass" or "synth" ("off": none)
    e_args,     \* [n, attack, decay, sustain_level, release, sr]
    e_env,      \* the returned envelope
    e_raised,   \* the call raised ValueError
    e_pc        \* "off", "call", "done"

envVars == <<e_which, e_args, e_env, e_raised, e_pc>>

VARIABLES
    g_instr,    \* generator script: "drums", "bass", "synth" ("off": none)
    g_section,  \* "intro", "verse", "chorus", "outro"
    g_beats,    \* num_beats of the section
    g_len,      \* length of the track buffer being built
    g_step,     \* index of the next place_sound call, note or chunk
    g_calls,    \* drums: the place_sound calls made in the current bar
    g_pc        \* "off", "start", "run", "done", "failed"

genVars == <<g_instr, g_section, g_beats, g_len, g_step, g_calls, g_pc>>

VARIABLES
    r_who,      \* renderer: "drums", "synth", "bass" ("off": none)
    r_in,       \* the floating-point buffer handed to the renderer
    r_ceiling,  \* the target peak of the renderer's normalization
    r_norm,     \* the buffer after the normalization step
    r_pre,      \* the buffer just before quantization
    r_out,      \* the 16-bit samples written
    r_raised,   \* the renderer raised ValueError
    r_pc        \* "off", "call", "done"

renderVars == <<r_who, r_in, r_ceiling, r_norm, r_pre, r_out, r_raised, r_pc>>

VARIABLES
    w_section,  \* synth section running the chunked filter sweep ("off": none)
    w_n,        \* n, the length of pad and of filtered
    w_i,        \* the loop variable i of `for i in range(0, n, chunk_size)`
    w_chunks,   \* per iteration made: what was filtered and where it was stored
    w_pc        \* "off", "loop", "done", "failed"

sweepVars == <<w_section, w_n, w_i, w_chunks, w_pc>>

VARIABLES
    o_fn,       \* oscillator called: "sawtooth_wave", "saw_wave" ("off": none)
    o_args,     \* [freq, duration, sr]
    o_t,        \* the sample times the oscillator computed
    o_wave,     \* the returned waveform
    o_raised,   \* the exception the call raised ("none": it returned)
    o_pc        \* "off", "call", "done"

oscVars == <<o_fn, o_args, o_t, o_wave, o_raised, o_pc>>

VARIABLES
    v_voice,    \* drum voice generated twice ("off": none)
    v_rate,     \* the sample_rate argument
    v_runs,     \* the buffers returned by the runs made so far
    v_pc        \* "off", "run", "done"

voiceVars == <<v_voice, v_rate, v_runs, v_pc>>

VARIABLES
    f_which,    \* whose filter: "bass" (low_pass_filter), "synth" (lowpass_filter)
    f_args,     \* [len, cutoff, sr]: the signal's length, the cutoff, the rate
    f_norm,     \* the normalized cutoff handed to butter
    f_len,      \* the length of the returned buffer
    f_raised,   \* the call raised ValueError
    f_pc        \* "off", "call", "done"

filterVars == <<f_which, f_args, f_norm, f_len, f_raised, f_pc>>

vars == <<subVars, placeVars, envVars, genVars, renderVars, sweepVars, oscVars,
          voiceVars, filterVars>>

notSub == <<placeVars, envVars, genVars, renderVars, sweepVars, oscVars, voiceVars, filterVars>>
notPlace == <<subVars, envVars, genVars, renderVars, sweepVars, oscVars, voiceVars, filterVars>>
notEnv == <<subVars, placeVars, genVars, renderVars, sweepVars, oscVars, voiceVars, filterVars>>
notGen == <<subVars, placeVars, envVars, renderVars, sweepVars, oscVars, voiceVars, filterVars>>
notRender == <<subVars, placeVars, envVars, genVars, sweepVars, oscVars, voiceVars, filterVars>>
notSweep == <<subVars, placeVars, envVars, genVars, renderVars, oscVars, voiceVars, filterVars>>
notOsc == <<subVars, placeVars, envVars, genVars, renderVars, sweepVars, voiceVars, filterVars>>
notVoice == <<subVars, placeVars, envVars, genVars, renderVars, sweepVars, oscVars, filterVars>>
notFilter == <<subVars, placeVars, envVars, genVars, renderVars, sweepVars, oscVars, voiceVars>>

(***************************************************************************)
(* The values a component's variables keep while it is not the one running. *)
(***************************************************************************)
SubmitIdle ==
    /\ s_who = "off"
    /\ s_idx = 1
    /\ s_log = <<>>
    /\ s_success = 0
    /\ s_pc = "off"
    /\ s_exit = -1

NoCall == [sound |-> <<>>, position |-> 0, volume |-> 0]

PlaceIdle ==
    /\ p_track = <<>>
    /\ p_before = <<>>
    /\ p_call = NoCall
    /\ p_raised = FALSE
    /\ p_count = -1
    /\ p_sound = <<>>

(***************************************************************************)
(* Exact rational arithmetic.                                              *)
(***************************************************************************)
Abs(x) == IF x < 0 THEN -x ELSE x

RECURSIVE Gcd(_, _)
Gcd(a, b) == IF b = 0 THEN a ELSE Gcd(b, a % b)

Rat(n, d) ==
    LET g == Gcd(Abs(n), Abs(d))
        s == IF d < 0 THEN -1 ELSE 1
    IN  <<(s * n) \div g, (s * d) \div g>>

RInt(k) == <<k, 1>>
RNeg(a) == <<-a[1], a[2]>>
RAbs(a) == <<Abs(a[1]), a[2]>>
RAdd(a, b) == Rat(a[1] * b[2] + b[1] * a[2], a[2] * b[2])
RSub(a, b) == RAdd(a, RNeg(b))
\* the product cancels across the factors first, so that it stays within
\* the integers TLC computes with
RMul(a, b) ==
    LET g1 == Gcd(Abs(a[1]), b[2])
        g2 == Gcd(Abs(b[1]), a[2])
    IN  IF a[1] = 0 \/ b[1] = 0 THEN <<0, 1>>
        ELSE <<(a[1] \div g1) * (b[1] \div g2), (a[2] \div g2) * (b[2] \div g1)>>
RInv(a) == IF a[1] < 0 THEN <<-a[2], -a[1]>> ELSE <<a[2], a[1]>>
RDiv(a, b) == RMul(a, RInv(b))
\* a/b < c/d for a, c >= 0 and b, d > 0, by comparing integer parts and then
\* the reciprocals of the fractional parts: no product is formed
RECURSIVE PosLess(_, _, _, _)
PosLess(a, b, c, d) ==
    IF a \div b # c \div d THEN a \div b < c \div d
    ELSE IF c % d = 0 THEN FALSE
    ELSE IF a % b = 0 THEN TRUE
    ELSE PosLess(d, c % d, b, a % b)

RLess(a, b) ==
    IF a[1] < 0
    THEN (b[1] >= 0 \/ PosLess(-b[1], b[2], -a[1], a[2]))
    ELSE (b[1] >= 0 /\ PosLess(a[1], a[2], b[1], b[2]))
RLeq(a, b) == ~RLess(b, a)

NoArgs == [n |-> 0, attack |-> <<0, 1>>, decay |-> <<0, 1>>,
           sustain_level |-> <<0, 1>>, release |-> <<0, 1>>, sr |-> 0]

EnvIdle ==
    /\ e_which = "off"
    /\ e_args = NoArgs
    /\ e_env = <<>>
    /\ e_raised = FALSE
    /\ e_pc = "off"

GenIdle ==
    /\ g_instr = "off"
    /\ g_section = "off"
    /\ g_beats = 0
    /\ g_len = 0
    /\ g_step = 0
    /\ g_calls = <<>>
    /\ g_pc = "off"

RenderIdle ==
    /\ r_who = "off"
    /\ r_in = <<>>
    /\ r_ceiling = <<0, 1>>
    /\ r_norm = <<>>
    /\ r_pre = <<>>
    /\ r_out = <<>>
    /\ r_raised = FALSE
    /\ r_pc = "off"

SweepIdle ==
    /\ w_section = "off"
    /\ w_n = 0
    /\ w_i = 0
    /\ w_chunks = <<>>
    /\ w_pc = "off"

NoOscArgs == [freq |-> <<0, 1>>, duration |-> <<0, 1>>, sr |-> 0]

OscIdle ==
    /\ o_fn = "off"
    /\ o_args = NoOscArgs
    /\ o_t = <<>>
    /\ o_wave = <<>>
    /\ o_raised = "none"
    /\ o_pc = "off"

VoiceIdle ==
    /\ v_voice = "off"
    /\ v_rate = 0
    /\ v_runs = <<>>
    /\ v_pc = "off"

NoFilterArgs == [len |-> 0, cutoff |-> <<0, 1>>, sr |-> 0]

FilterIdle ==
    /\ f_which = "off"
    /\ f_args = NoFilterArgs
    /\ f_norm = <<0, 1>>
    /\ f_len = 0
    /\ f_raised = FALSE
    /\ f_pc = "off"

\* no component but the one a specification starts is running
OthersIdle == SweepIdle /\ OscIdle /\ VoiceIdle /\ FilterIdle

(***************************************************************************)
(* generate_drums.py place_sound, with Python's and numpy's slicing.       *)
(***************************************************************************)
MaxTrack == 3       \* longest track buffer
MaxSound == 3       \* longest sound buffer
MaxBack == 1        \* positions start this far before the track
MaxPast == 2        \* positions end this far past the track's end
MaxPlacements == 2  \* calls of place_sound on one track

Max2(a, b) == IF a >= b THEN a ELSE b
Min2(a, b) == IF a <= b THEN a ELSE b

\* a slice bound as Python resolves it against a length: a negative bound
\* counts from the end, and the result is clamped to 0..n
SliceBound(k, n) == IF k < 0 THEN Max2(k + n, 0) ELSE Min2(k, n)

\* s[start:stop]
PySlice(s, start, stop) ==
    LET a == SliceBound(start, Len(s))
        b == SliceBound(stop, Len(s))
    IN  IF b > a THEN SubSeq(s, a + 1, b) ELSE <<>>

\* np.zeros(n)
Zeros(n) == [i \in 1..n |-> 0]

\* len(s[start:stop])
SliceLen(n, start, stop) == Max2(SliceBound(stop, n) - SliceBound(start, n), 0)

\* the end index place_sound writes up to
PlaceEnd(track_len, sound_len, start) ==
    IF start + sound_len > track_len THEN track_len ELSE start + sound_len

\* the length of the sound after `if end > len(track): ... sound[:end - start]`
TruncatedLen(track_len, sound_len, start) ==
    IF start + sound_len > track_len
    THEN SliceLen(sound_len, 0, track_len - start)
    ELSE sound_len

\* `track[start:end] += sound * volume`: numpy adds in place when the
\* right-hand side has the slice's length or has length 1 (broadcast over
\* the slice), and raises ValueError for any other pair of shapes
PlaceRaises(track_len, sound_len, start) ==
    LET n == SliceLen(track_len, start, PlaceEnd(track_len, sound_len, start))
        m == TruncatedLen(track_len, sound_len, start)
    IN  m # n /\ m # 1

\* `track[start:end] = sound * volume`: the slice overwritten, not added to
PlaceSoundOverwrite(track, sound, position_samples, volume) ==
    LET start == position_samples
        end == PlaceEnd(Len(track), Len(sound), start)
        snd == PySlice(sound, 0, TruncatedLen(Len(track), Len(sound), start))
        a == SliceBound(start, Len(track))
        b == a + SliceLen(Len(track), start, end)
    IN  IF PlaceRaises(Len(track), Len(sound), start)
        THEN [track |-> track, raised |-> TRUE]
        ELSE [track |-> [i \in 1..Len(track) |->
                            IF i > a /\ i <= b
                            THEN volume * snd[IF Len(snd) = 1 THEN 1 ELSE i - a]
                            ELSE track[i]],
              raised |-> FALSE]

place_sound(track, sound, position_samples, volume) ==
    LET start == position_samples
        end == PlaceEnd(Len(track), Len(sound), start)
        snd == PySlice(sound, 0, TruncatedLen(Len(track), Len(sound), start))
        a == SliceBound(start, Len(track))
        b == a + SliceLen(Len(track), start, end)
    IN  IF PlaceRaises(Len(track), Len(sound), start)
        THEN [track |-> track, raised |-> TRUE]
        ELSE [track |-> [i \in 1..Len(track) |->
                            IF i > a /\ i <= b
                            THEN track[i] + volume * snd[IF Len(snd) = 1 THEN 1 ELSE i - a]
                            ELSE track[i]],
              raised |-> FALSE]

\* the caller's sound buffer after the call: `sound = sound[:end - start]`
\* binds the local name to a view of it and `sound * volume` is a new
\* array, so no sample of it is written
CallerSound(sound, track_len, start) == sound

\* a sound of n samples: 1, 2, ..., n
Ramp(n) == [i \in 1..n |-> i]
Sounds == {Ramp(n) : n \in 0..MaxSound}
Volumes == {1, 2}
Positions(track) == (0 - MaxBack)..(Len(track) + MaxPast)
\* track = np.zeros(total_samples)
InitPlace ==
    /\ p_track \in {Zeros(n) : n \in 0..MaxTrack}
    /\ p_before = p_track
    /\ p_call = NoCall
    /\ p_raised = FALSE
    /\ p_count = 0
    /\ p_sound = <<>>
    /\ SubmitIdle /\ EnvIdle /\ GenIdle /\ RenderIdle /\ OthersIdle

\* one call place_sound(track, sound, position, volume); an exception ends
\* the generator
PlaceSound(sound, position, volume) ==
    /\ p_count >= 0
    /\ p_count < MaxPlacements
    /\ ~p_raised
    /\ LET r == place_sound(p_track, sound, position, volume) IN
        /\ p_track' = r.track
        /\ p_raised' = r.raised
    /\ p_before' = p_track
    /\ p_call' = [sound |-> sound, position |-> position, volume |-> volume]
    /\ p_count' = p_count + 1
    /\ p_sound' = CallerSound(sound, Len(p_track), position)
    /\ UNCHANGED notPlace

NextPlace ==
    \E sound \in Sounds, volume \in Volumes :
        \E position \in Positions(p_track) : PlaceSound(sound, position, volume)

SpecPlace == InitPlace /\ [][NextPlace]_vars

\* the last call was one whose sound does not fit: position + len(sound)
\* exceeds len(track)
Overflows == p_count > 0 /\ p_call.position + Len(p_call.sound) > Len(p_before)

\* the samples of the sound that fall inside the track
FittingPart == Max2(0, Min2(Len(p_call.sound), Len(p_before) - p_call.position))

\* C3: a call of place_sound whose position + len(sound) exceeds len(track),
\* positions at or past the end of the track included, does not raise, leaves
\* the track's length unchanged and adds to the track exactly the part of the
\* sound that fits.
C3_OverflowTruncates ==
    (Overflows /\ p_call.position >= 0) =>
        /\ ~p_raised
        /\ Len(p_track) = Len(p_before)
        /\ \A i \in 1..Len(p_track) :
            p_track[i] = p_before[i] +
                (IF i > p_call.position /\ i <= p_call.position + FittingPart
                 THEN p_call.volume * p_call.sound[i - p_call.position] ELSE 0)

\* C3 where the code does what the claim says: the position is inside the
\* track or at its end
C3_TruncatesWithinTrack ==
    (Overflows /\ p_call.position >= 0 /\ p_call.position <= Len(p_before)) =>
        /\ ~p_raised
        /\ Len(p_track) = Len(p_before)
        /\ \A i \in 1..Len(p_track) :
            p_track[i] = p_before[i] +
                (IF i > p_call.position
                 THEN p_call.volume * p_call.sound[i - p_call.position] ELSE 0)

\* the call placed its sound at a position within the track, its end included
PlacedWithin ==
    p_count > 0 /\ p_call.position >= 0 /\ p_call.position <= Len(p_before)

\* the calls that place a sound within a track of n samples
CallsWithin(n) ==
    [sound : Sounds, position : 0..n, volume : Volumes]

\* C16: after place_sound(track, sound, start, volume) with
\* 0 <= start <= len(track), every track sample at index i in
\* [start, min(start + len(sound), len(track))) is its old value plus
\* volume x sound[i - start], every other sample is unchanged, the track
\* keeps its length and the sound buffer is not modified; placing another
\* sound before or after this one sums to the same track.
C16_AdditiveAndFramed ==
    PlacedWithin =>
        LET start == p_call.position
            stop == Min2(start + Len(p_call.sound), Len(p_before))
        IN
        /\ ~p_raised
        /\ Len(p_track) = Len(p_before)
        /\ \A i \in 0..(Len(p_track) - 1) :
            p_track[i + 1] =
                IF i >= start /\ i < stop
                THEN p_before[i + 1] + p_call.volume * p_call.sound[i - start + 1]
                ELSE p_before[i + 1]
        /\ p_sound = p_call.sound
        /\ \A c \in CallsWithin(Len(p_before)) :
            place_sound(p_track, c.sound, c.position, c.volume).track =
                place_sound(place_sound(p_before, c.sound, c.position, c.volume).track,
                            p_call.sound, p_call.position, p_call.volume).track

\* two overlapping sounds on a track of three samples: 1, 2 at index 0, then
\* 1, 2, 3 at index 1 with volume 2, its last sample cut off
C16_Witness ==
    /\ p_count = 2
    /\ p_before = <<1, 2, 0>>
    /\ p_call = [sound |-> <<1, 2, 3>>, position |-> 1, volume |-> 2]
    /\ p_track = <<1, 4, 4>>
    /\ p_sound = <<1, 2, 3>>
    /\ ~p_raised

(***************************************************************************)
(* adsr_envelope of generate_bass.py and of generate_synths.py.            *)
(***************************************************************************)
SAMPLE_RATE == 44100
ModelRate == 10     \* a sample rate small enough to enumerate envelopes
MaxEnvLen == 8      \* longest envelope enumerated
MaxTenths == 3      \* attack, decay, release range over 0, 0.1, ... seconds

\* int(x) of a rational: truncation toward zero
PyInt(x) == IF x[1] >= 0 THEN x[1] \div x[2] ELSE -((-x[1]) \div x[2])

\* int(seconds * sample_rate)
ToSamples(seconds, sr) == PyInt(RMul(seconds, RInt(sr)))

\* np.linspace(start, stop, num): num points, both ends included; one point
\* is start alone
Linspace(start, stop, num) ==
    [k \in 1..Max2(num, 0) |->
        IF num = 1 THEN start
        ELSE RAdd(start, RMul(Rat(k - 1, num - 1), RSub(stop, start)))]

\* a buffer under construction and whether an assignment into it has raised
Buf(env) == [env |-> env, raised |-> FALSE]

\* env[start:stop] = vals: numpy requires vals to have the slice's length or
\* length 1 (broadcast), and raises ValueError otherwise
SliceAssign(st, start, stop, vals) ==
    LET a == SliceBound(start, Len(st.env))
        b == Max2(SliceBound(stop, Len(st.env)), a)
        m == Len(vals)
    IN  IF st.raised THEN st
        ELSE IF m # b - a /\ m # 1 THEN [env |-> st.env, raised |-> TRUE]
        ELSE [env |-> [i \in 1..Len(st.env) |->
                          IF i > a /\ i <= b
                          THEN vals[IF m = 1 THEN 1 ELSE i - a]
                          ELSE st.env[i]],
              raised |-> FALSE]

\* env[start:stop] = value, a scalar
SliceFill(st, start, stop, value) == SliceAssign(st, start, stop, <<value>>)

RZero == <<0, 1>>
ROne == <<1, 1>>
RZeros(n) == [i \in 1..n |-> RZero]

\* generate_bass.py: `half = num_samples // 2`
BassHalfUp(num_samples) == (num_samples + 1) \div 2

BassHalf(num_samples) == num_samples \div 2

\* generate_bass.py: the branch `if sustain_samples < 0`
BassShortNote(num_samples) ==
    LET half == BassHalf(num_samples)
        s1 == SliceAssign(Buf(RZeros(num_samples)), 0, half,
                          Linspace(RZero, ROne, half))
    IN  SliceAssign(s1, half, num_samples,
                    Linspace(ROne, RZero, num_samples - half))

\* generate_bass.py: the four phases written one after the other
BassPhases(num_samples, attack_samples, decay_samples, sustain_samples, release_samples, sustain_level) ==
    LET i1 == attack_samples
        i2 == i1 + decay_samples
        i3 == i2 + sustain_samples
        s1 == SliceAssign(Buf(RZeros(num_samples)), 0, i1,
                          Linspace(RZero, ROne, attack_samples))
        s2 == SliceAssign(s1, i1, i2,
                          Linspace(ROne, sustain_level, decay_samples))
        s3 == SliceFill(s2, i2, i3, sustain_level)
    IN  SliceAssign(s3, i3, i3 + release_samples,
                    Linspace(sustain_level, RZero, release_samples))

\* generate_bass.py adsr_envelope without its short-note branch
BassNoShortNote(num_samples, attack, decay, sustain_level, release, sample_rate) ==
    LET attack_samples == ToSamples(attack, sample_rate)
        decay_samples == ToSamples(decay, sample_rate)
        release_samples == ToSamples(release, sample_rate)
    IN  BassPhases(num_samples, attack_samples, decay_samples,
                   num_samples - attack_samples - decay_samples - release_samples,
                   release_samples, sustain_level)

\* generate_bass.py adsr_envelope
bass_adsr_envelope(num_samples, attack, decay, sustain_level, release, sample_rate) ==
    LET attack_samples == ToSamples(attack, sample_rate)
        decay_samples == ToSamples(decay, sample_rate)
        release_samples == ToSamples(release, sample_rate)
        sustain_samples ==
            num_samples - attack_samples - decay_samples - release_samples
    IN  IF sustain_samples < 0
        THEN BassShortNote(num_samples)
        ELSE BassPhases(num_samples, attack_samples, decay_samples,
                        sustain_samples, release_samples, sustain_level)

\* generate_synths.py adsr_envelope: each phase is cut to the samples left
synth_adsr_envelope(num_samples, attack, decay, sustain_level, release, sr) ==
    LET a_samples == ToSamples(attack, sr)
        d_samples == ToSamples(decay, sr)
        r_samples == ToSamples(release, sr)
        s_samples == Max2(0, num_samples - a_samples - d_samples - r_samples)
        s0 == Buf(RZeros(num_samples))
        \* attack
        e1 == Min2(a_samples, num_samples)
        s1 == IF a_samples > 0
              THEN SliceAssign(s0, 0, e1, Linspace(RZero, ROne, e1)) ELSE s0
        i1 == IF a_samples > 0 THEN e1 ELSE 0
        \* decay
        doDecay == i1 < num_samples /\ d_samples > 0
        e2 == Min2(i1 + d_samples, num_samples)
        s2 == IF doDecay
              THEN SliceAssign(s1, i1, e2, Linspace(ROne, sustain_level, e2 - i1))
              ELSE s1
        i2 == IF doDecay THEN e2 ELSE i1
        \* sustain
        doSustain == i2 < num_samples /\ s_samples > 0
        e3 == Min2(i2 + s_samples, num_samples)
        s3 == IF doSustain THEN SliceFill(s2, i2, e3, sustain_level) ELSE s2
        i3 == IF doSustain THEN e3 ELSE i2
    IN  \* release
        IF i3 < num_samples
        THEN SliceAssign(s3, i3, num_samples,
                         Linspace(sustain_level, RZero, num_samples - i3))
        ELSE s3

Tenths == {Rat(k, 10) : k \in 0..MaxTenths}
SustainLevels == {<<0, 1>>, <<3, 10>>, <<7, 10>>, <<1, 1>>}

\* the calls enumerated: every short envelope at the small rate
EnumeratedArgs ==
    [n : 0..MaxEnvLen, attack : Tenths, decay : Tenths,
     sustain_level : SustainLevels, release : Tenths, sr : {ModelRate}]

\* adsr_envelope(100) with each module's default arguments, at 44100 Hz
DefaultArgs(which) ==
    [n |-> 100, attack |-> <<1, 100>>,
     decay |-> IF which = "bass" THEN <<1, 20>> ELSE <<1, 10>>,
     sustain_level |-> <<7, 10>>, release |-> <<1, 10>>, sr |-> SAMPLE_RATE]

InitEnvelope ==
    /\ e_which \in {"bass", "synth"}
    /\ e_args \in EnumeratedArgs \cup {DefaultArgs(e_which)}
    /\ e_env = <<>>
    /\ e_raised = FALSE
    /\ e_pc = "call"
    /\ SubmitIdle /\ PlaceIdle /\ GenIdle /\ RenderIdle /\ OthersIdle

BassEnvelope ==
    /\ e_pc = "call"
    /\ e_which = "bass"
    /\ LET r == bass_adsr_envelope(e_args.n, e_args.attack, e_args.decay,
                    e_args.sustain_level, e_args.release, e_args.sr) IN
        /\ e_env' = r.env
        /\ e_raised' = r.raised
    /\ e_pc' = "done"
    /\ UNCHANGED <<e_which, e_args, notEnv>>

SynthEnvelope ==
    /\ e_pc = "call"
    /\ e_which = "synth"
    /\ LET r == synth_adsr_envelope(e_args.n, e_args.attack, e_args.decay,
                    e_args.sustain_level, e_args.release, e_args.sr) IN
        /\ e_env' = r.env
        /\ e_raised' = r.raised
    /\ e_pc' = "done"
    /\ UNCHANGED <<e_which, e_args, notEnv>>

NextEnvelope == BassEnvelope \/ SynthEnvelope

SpecEnvelope == InitEnvelope /\ [][NextEnvelope]_vars

\* the sample counts of the three timed phases of the call
PhaseSamples ==
    ToSamples(e_args.attack, e_args.sr) + ToSamples(e_args.decay, e_args.sr)
        + ToSamples(e_args.release, e_args.sr)

\* the note is shorter than its attack, decay and release together
ShortNote == e_pc = "done" /\ PhaseSamples > e_args.n

\* sample i (from 1) of the symmetric envelope of n samples: the first
\* floor(n/2) samples rise linearly from 0 to 1, the others fall from 1 to 0
Symmetric(i, n) ==
    LET h == n \div 2 IN
    IF i <= h
    THEN (IF h = 1 THEN RZero ELSE Rat(i - 1, h - 1))
    ELSE (IF n - h = 1 THEN ROne ELSE Rat(n - i, n - h - 1))

IsSymmetricFallback ==
    /\ ~e_raised
    /\ Len(e_env) = e_args.n
    /\ \A i \in 1..Len(e_env) : e_env[i] = Symmetric(i, e_args.n)

\* C4 as claimed: every envelope generator (bass and synth) returns the
\* symmetric fallback envelope when attack + decay + release samples exceed
\* the total sample count.
C4_EveryGeneratorFallsBack == ShortNote => IsSymmetricFallback

\* C4 as amended: the bass envelope generator returns the symmetric fallback
\* envelope when attack + decay + release samples exceed the total sample
\* count: floor(total/2) samples rising linearly 0 to 1, then the remaining
\* samples falling linearly 1 to 0.
C4_BassFallsBack == (ShortNote /\ e_which = "bass") => IsSymmetricFallback

\* the example of the claim: total = 100, the bass defaults at 44100 Hz,
\* samples 1..50 rising from 0 to 1 and samples 51..100 falling from 1 to 0
C4_Witness ==
    /\ ShortNote
    /\ e_which = "bass"
    /\ e_args = DefaultArgs("bass")
    /\ e_env[1] = RZero /\ e_env[50] = ROne
    /\ e_env[51] = ROne /\ e_env[100] = RZero

\* C5: for every sample count >= 0, non-negative attack, decay and release
\* and sustain level in [0, 1], adsr_envelope (bass and synth) returns without
\* raising a buffer of exactly the requested length whose samples all lie in
\* [0, max(1, sustain_level)].
C5_EnvelopeBounded ==
    e_pc = "done" =>
        /\ ~e_raised
        /\ Len(e_env) = e_args.n
        /\ \A i \in 1..Len(e_env) :
            /\ RLeq(RZero, e_env[i])
            /\ RLeq(e_env[i], IF RLeq(ROne, e_args.sustain_level)
                              THEN e_args.sustain_level ELSE ROne)

\* an envelope with all four phases present
C5_Witness ==
    /\ e_pc = "done"
    /\ e_args.n > PhaseSamples
    /\ ToSamples(e_args.attack, e_args.sr) > 1
    /\ ToSamples(e_args.decay, e_args.sr) > 1
    /\ ToSamples(e_args.release, e_args.sr) > 1
    /\ e_args.sustain_level = <<7, 10>>
    /\ e_env[e_args.n - ToSamples(e_args.release, e_args.sr)] = <<7, 10>>

(***************************************************************************)
(* The section generators of generate_drums.py, generate_bass.py and       *)
(* generate_synths.py: the buffers they allocate and what they place where.*)
(***************************************************************************)
BPM == 120
MaxVarBeats == 5    \* the drum generators are also run with 1..MaxVarBeats beats

\* BEAT_DURATION (drums), BEAT_DUR (bass, synth) = 60.0 / BPM
BEAT_DURATION == Rat(60, BPM)

Sections == {"intro", "verse", "chorus", "outro"}

\* the default num_beats of the drum generators; the beats the bass and the
\* synth generators hard-code (16 * BEAT_DUR, total_beats = 32, 32 * BEAT_DUR)
SectionBeats(section) == IF section \in {"intro", "outro"} THEN 16 ELSE 32

\* beat_to_samples as the interface description states it: round(), which
\* Python rounds half to even
BeatToSamplesRounded(beat) ==
    LET x == RMul(RMul(beat, BEAT_DURATION), RInt(SAMPLE_RATE))
        f == x[1] \div x[2]
        twice == 2 * (x[1] % x[2])
    IN  IF twice < x[2] THEN f
        ELSE IF twice > x[2] THEN f + 1
        ELSE IF f % 2 = 0 THEN f ELSE f + 1

\* generate_drums.py beat_to_samples
beat_to_samples(beat) == PyInt(RMul(RMul(beat, BEAT_DURATION), RInt(SAMPLE_RATE)))

\* total_samples with the beat duration left out
TotalSamplesNoBeat(num_beats) == PyInt(RMul(RInt(num_beats), RInt(SAMPLE_RATE)))

\* generate_drums.py: total_samples = int(num_beats * BEAT_DURATION * SAMPLE_RATE)
TotalSamples(num_beats) ==
    PyInt(RMul(RMul(RInt(num_beats), BEAT_DURATION), RInt(SAMPLE_RATE)))

\* the default duration of each drum voice, in seconds
VoiceDuration(voice) ==
    CASE voice = "kick" -> <<3, 20>>
      [] voice = "snare" -> <<3, 25>>
      [] voice = "hihat_closed" -> <<1, 25>>
      [] voice = "hihat_open" -> <<3, 25>>

\* a voice twice as long: int(2 * sample_rate * duration)
VoiceLenDoubled(voice) == PyInt(RMul(RInt(2 * SAMPLE_RATE), VoiceDuration(voice)))

\* len(generate_<voice>()) = int(sample_rate * duration)
VoiceLen(voice) == PyInt(RMul(RInt(SAMPLE_RATE), VoiceDuration(voice)))

\* one place_sound call of a drum pattern: the voice, the beat position in
\* quarter beats, the volume, the bar it belongs to
DrumCall(voice, q, volume, bar) ==
    [voice |-> voice, q |-> q, volume |-> volume, bar |-> bar]

\* generate_drums.py generate_intro: a hi-hat on every eighth note
IntroCalls(num_beats) ==
    LET total_eighth_notes == num_beats * 2 IN
    [k \in 1..total_eighth_notes |->
        LET i == k - 1 IN
        DrumCall(IF i % 4 = 0 /\ i > total_eighth_notes \div 2
                 THEN "hihat_open" ELSE "hihat_closed",
                 2 * i,
                 RAdd(<<3, 20>>, RMul(<<9, 20>>, Rat(i, total_eighth_notes))),
                 i \div 8)]

\* generate_drums.py generate_verse: one bar
VerseBar(bar) ==
    LET bar_offset == bar * 4 IN
    << DrumCall("kick", 4 * (bar_offset + 0), <<9, 10>>, bar),
       DrumCall("kick", 4 * (bar_offset + 2), <<17, 20>>, bar),
       DrumCall("snare", 4 * (bar_offset + 1), <<3, 4>>, bar),
       DrumCall("snare", 4 * (bar_offset + 3), <<3, 4>>, bar) >>
    \o [k \in 1..8 |->
          DrumCall("hihat_closed", 4 * bar_offset + 2 * (k - 1), <<9, 20>>, bar)]

\* generate_drums.py generate_chorus: `for beat in range(4)`
ChorusKickBeats == 0..3

\* generate_drums.py generate_chorus: one bar, with the snare fill of every
\* fourth bar
ChorusBar(bar) ==
    LET bar_offset == bar * 4 IN
    [k \in 1..Cardinality(ChorusKickBeats) |->
        DrumCall("kick", 4 * (bar_offset + (k - 1)), <<19, 20>>, bar)]
    \o << DrumCall("snare", 4 * (bar_offset + 1), <<17, 20>>, bar),
          DrumCall("snare", 4 * (bar_offset + 3), <<17, 20>>, bar) >>
    \o [k \in 1..8 |->
          LET eighth == k - 1 IN
          IF eighth % 2 = 1
          THEN DrumCall("hihat_open", 4 * bar_offset + 2 * eighth, <<11, 20>>, bar)
          ELSE DrumCall("hihat_closed", 4 * bar_offset + 2 * eighth, <<1, 2>>, bar)]
    \o (IF (bar + 1) % 4 = 0
        THEN [k \in 1..4 |->
                LET sixteenth == k - 1 IN
                DrumCall("snare", 4 * (bar_offset + 3) + sixteenth,
                         RAdd(<<7, 10>>, Rat(sixteenth, 20)), bar)]
        ELSE <<>>)

\* generate_drums.py generate_outro: one bar, fading
OutroBar(bar, num_beats) ==
    LET bar_offset == bar * 4
        fade == RSub(ROne, RMul(Rat(bar, num_beats \div 4), <<17, 20>>))
    IN  << DrumCall("kick", 4 * (bar_offset + 0), RMul(<<9, 10>>, fade), bar) >>
        \o (IF bar < 3
            THEN << DrumCall("kick", 4 * (bar_offset + 2), RMul(<<4, 5>>, fade), bar) >>
            ELSE <<>>)
        \o << DrumCall("snare", 4 * (bar_offset + 1), RMul(<<7, 10>>, fade), bar) >>
        \o (IF bar < 2
            THEN << DrumCall("snare", 4 * (bar_offset + 3), RMul(<<7, 10>>, fade), bar) >>
            ELSE <<>>)
        \o [k \in 1..8 |->
              LET eighth == k - 1
                  hh_fade == RMul(fade, RSub(ROne, RMul(Rat(eighth, 8), <<3, 10>>)))
              IN  DrumCall("hihat_closed", 4 * bar_offset + 2 * eighth,
                           RMul(<<2, 5>>, hh_fade), bar)]

BarCalls(section, num_beats, bar) ==
    CASE section = "verse" -> VerseBar(bar)
      [] section = "chorus" -> ChorusBar(bar)
      [] section = "outro" -> OutroBar(bar, num_beats)

\* `for bar in range(num_beats // 4)`
RECURSIVE BarsFrom(_, _, _)
BarsFrom(section, num_beats, bar) ==
    IF bar >= num_beats \div 4 THEN <<>>
    ELSE BarCalls(section, num_beats, bar) \o BarsFrom(section, num_beats, bar + 1)

\* every place_sound call of a drum section, in program order
DrumCalls(section, num_beats) ==
    IF section = "intro" THEN IntroCalls(num_beats)
    ELSE BarsFrom(section, num_beats, 0)

\* generate_bass.py: len(make_bass_note(freq, BEAT_DUR)) = int(sample_rate * duration)
BassNoteLen == PyInt(RMul(RInt(SAMPLE_RATE), BEAT_DURATION))

\* generate_bass.py: the notes of the verse and of the chorus,
\* repeats * len(pattern) with repeats = total_beats // len(pattern)
BassNotes(section) ==
    LET total_beats == 32
        pattern_len == IF section = "verse" THEN 4 ELSE 8
    IN  (total_beats \div pattern_len) * pattern_len

\* generate_synths.py: chunk_size = SAMPLE_RATE // 10
ChunkSize == SAMPLE_RATE \div 10

\* generate_synths.py: the length in seconds of one step of the verse
\* (eighth_dur = BEAT_DUR / 2) and of the chorus (chord_dur = lead_dur = 2 * BEAT_DUR)
SynthStepDur(section) ==
    IF section = "verse" THEN RDiv(BEAT_DURATION, RInt(2))
    ELSE RMul(RInt(2), BEAT_DURATION)

\* generate_synths.py: num_eighths, num_chords, num_lead = int(duration / step)
SynthSteps(section) ==
    PyInt(RDiv(RMul(RInt(SectionBeats(section)), BEAT_DURATION), SynthStepDur(section)))

\* generate_synths.py: start = int(i * step * SAMPLE_RATE)
SynthStart(section, i) ==
    PyInt(RMul(RMul(RInt(i), SynthStepDur(section)), RInt(SAMPLE_RATE)))

\* generate_synths.py: the verse places its notes once, the chorus places its
\* chords and then its lead notes
SynthPlacements(section) ==
    IF section = "verse" THEN SynthSteps(section) ELSE 2 * SynthSteps(section)

\* the generator is called: the drum generators allocate
\* np.zeros(total_samples), the synth generators np.zeros(n), the bass
\* verse and chorus start from all_notes = []
InitGenerate ==
    /\ g_instr \in {"drums", "bass", "synth"}
    /\ g_section \in Sections
    /\ g_beats \in IF g_instr = "drums"
                   THEN {SectionBeats(g_section)} \cup 1..MaxVarBeats
                   ELSE {SectionBeats(g_section)}
    /\ g_len = CASE g_instr = "drums" -> TotalSamples(g_beats)
                 [] g_instr = "synth" ->
                      PyInt(RMul(RMul(RInt(g_beats), BEAT_DURATION), RInt(SAMPLE_RATE)))
                 [] OTHER -> 0
    /\ g_step = 0
    /\ g_calls = <<>>
    /\ g_pc = "run"
    /\ SubmitIdle /\ PlaceIdle /\ EnvIdle /\ RenderIdle /\ OthersIdle

\* the next place_sound call of the drum section
DrumsPlace ==
    /\ g_pc = "run"
    /\ g_instr = "drums"
    /\ g_step < Len(DrumCalls(g_section, g_beats))
    /\ LET c == DrumCalls(g_section, g_beats)[g_step + 1]
           start == beat_to_samples(Rat(c.q, 4))
           call == [voice |-> c.voice, q |-> c.q, volume |-> c.volume,
                    bar |-> c.bar, start |-> start, len |-> VoiceLen(c.voice)]
       IN  /\ g_calls' = IF g_calls # <<>> /\ g_calls[1].bar = c.bar
                         THEN Append(g_calls, call) ELSE <<call>>
           /\ g_pc' = IF PlaceRaises(g_len, call.len, start) THEN "failed" ELSE "run"
    /\ g_step' = g_step + 1
    /\ UNCHANGED <<g_instr, g_section, g_beats, g_len, notGen>>

\* return normalize_and_convert(track): np.max of an empty track raises
DrumsFinish ==
    /\ g_pc = "run"
    /\ g_instr = "drums"
    /\ g_step >= Len(DrumCalls(g_section, g_beats))
    /\ g_pc' = IF g_len = 0 THEN "failed" ELSE "done"
    /\ UNCHANGED <<g_instr, g_section, g_beats, g_len, g_step, g_calls, notGen>>

\* generate_bass.py generate_intro, generate_outro: one buffer of
\* num_samples = int(SAMPLE_RATE * duration), shaped and saved
BassSustained ==
    /\ g_pc = "run"
    /\ g_instr = "bass"
    /\ g_section \in {"intro", "outro"}
    /\ g_len' = PyInt(RMul(RInt(SAMPLE_RATE), RMul(RInt(g_beats), BEAT_DURATION)))
    /\ g_pc' = "done"
    /\ UNCHANGED <<g_instr, g_section, g_beats, g_step, g_calls, notGen>>

\* generate_bass.py generate_verse, generate_chorus: all_notes.append(note)
BassNote ==
    /\ g_pc = "run"
    /\ g_instr = "bass"
    /\ g_section \in {"verse", "chorus"}
    /\ g_step < BassNotes(g_section)
    /\ g_len' = g_len + BassNoteLen
    /\ g_step' = g_step + 1
    /\ UNCHANGED <<g_instr, g_section, g_beats, g_calls, g_pc, notGen>>

\* np.concatenate(all_notes), filtered, normalized and saved: the length is
\* the sum of the notes' lengths
BassFinish ==
    /\ g_pc = "run"
    /\ g_instr = "bass"
    /\ g_section \in {"verse", "chorus"}
    /\ g_step >= BassNotes(g_section)
    /\ g_pc' = "done"
    /\ UNCHANGED <<g_instr, g_section, g_beats, g_len, g_step, g_calls, notGen>>

\* generate_synths.py generate_intro, generate_outro: one chunk of the
\* filter sweep, `for i in range(0, n, chunk_size)`, written to filtered[i:end]
SynthChunk ==
    /\ g_pc = "run"
    /\ g_instr = "synth"
    /\ g_section \in {"intro", "outro"}
    /\ g_step < g_len
    /\ g_step' = g_step + ChunkSize
    /\ UNCHANGED <<g_instr, g_section, g_beats, g_len, g_calls, g_pc, notGen>>

\* generate_synths.py generate_verse, generate_chorus: one note or chord
\* added to signal[start:end]; the note has end - start samples
SynthNote ==
    /\ g_pc = "run"
    /\ g_instr = "synth"
    /\ g_section \in {"verse", "chorus"}
    /\ g_step < SynthPlacements(g_section)
    /\ LET i == g_step % SynthSteps(g_section)
           start == SynthStart(g_section, i)
           end == Min2(SynthStart(g_section, i + 1), g_len)
       IN  g_calls' = << [voice |-> "note", q |-> 0, volume |-> ROne, bar |-> i,
                          start |-> start, len |-> end - start] >>
    /\ g_step' = g_step + 1
    /\ UNCHANGED <<g_instr, g_section, g_beats, g_len, g_pc, notGen>>

\* the loops are over: the buffer is filtered (same length) and saved
SynthFinish ==
    /\ g_pc = "run"
    /\ g_instr = "synth"
    /\ g_step >= (IF g_section \in {"intro", "outro"}
                  THEN g_len ELSE SynthPlacements(g_section))
    /\ g_pc' = "done"
    /\ UNCHANGED <<g_instr, g_section, g_beats, g_len, g_step, g_calls, notGen>>

NextGenerate ==
    \/ DrumsPlace
    \/ DrumsFinish
    \/ BassSustained
    \/ BassNote
    \/ BassFinish
    \/ SynthChunk
    \/ SynthNote
    \/ SynthFinish

SpecGenerate == InitGenerate /\ [][NextGenerate]_vars

\* the length every instrument's track of a section has
SectionLength(section) == IF section \in {"intro", "outro"} THEN 352800 ELSE 705600

\* C6: for every instrument and every section, the generated track has
\* exactly num_beats x 0.5 x 44100 samples (the 16-beat intro 352800), and
\* with the sections' own beat counts the tracks of the three instruments for
\* the same section have the same length.
C6_TrackLength ==
    g_pc = "done" =>
        /\ 2 * g_len = g_beats * 44100
        /\ (g_section = "intro" /\ g_beats = 16) => g_len = 352800
        /\ g_beats = SectionBeats(g_section) => g_len = SectionLength(g_section)

\* the 16-beat drum intro, generated
C6_Witness ==
    /\ g_pc = "done"
    /\ g_instr = "drums"
    /\ g_section = "intro"
    /\ g_beats = 16
    /\ g_step = 32
    /\ g_len = 352800

\* the calls of the current bar that place the given voice
CallsOf(voice) == {k \in 1..Len(g_calls) : g_calls[k].voice = voice}

InDrumChorus == g_instr = "drums" /\ g_section = "chorus"

\* the kicks of the current chorus bar are the bar's first calls, the k-th at
\* beat k - 1 of the bar: 0, 22050, 44100, 66150 samples after the bar start
ChorusKicksOnTheBeats ==
    InDrumChorus =>
        /\ \A k \in CallsOf("kick") :
            /\ k <= 4
            /\ g_calls[k].start = 88200 * g_calls[k].bar + 22050 * (k - 1)
            /\ g_calls[k].start - beat_to_samples(RInt(4 * g_calls[k].bar))
                 = beat_to_samples(RInt(k - 1))
        /\ Len(g_calls) >= 4 => Cardinality(CallsOf("kick")) = 4

\* C7 as claimed: every chorus bar has its four kicks at offsets 0,
\* beat_to_samples(1), beat_to_samples(2), beat_to_samples(3) from the bar
\* start, and every position the patterns use, half and quarter beats
\* included, is converted as round(b x 0.5 x 44100).
C7_KicksAndRoundedPositions ==
    /\ ChorusKicksOnTheBeats
    /\ g_instr = "drums" =>
        \A k \in 1..Len(g_calls) :
            g_calls[k].start = BeatToSamplesRounded(Rat(g_calls[k].q, 4))

\* C7 as amended: every chorus bar has its four kicks at offsets 0,
\* beat_to_samples(1), beat_to_samples(2), beat_to_samples(3) from the bar
\* start, where beat_to_samples(b) is b x 0.5 x 44100 truncated to an integer:
\* the exact value (and so round's) at whole and half beats, and the value
\* rounded down at the quarter-beat positions of the snare fill.
C7_KicksAndTruncatedPositions ==
    /\ ChorusKicksOnTheBeats
    /\ g_instr = "drums" =>
        \A k \in 1..Len(g_calls) :
            /\ 8 * g_calls[k].start <= g_calls[k].q * 44100
            /\ g_calls[k].q * 44100 < 8 * (g_calls[k].start + 1)
            /\ g_calls[k].q % 2 = 0 =>
                /\ 8 * g_calls[k].start = g_calls[k].q * 44100
                /\ g_calls[k].start = BeatToSamplesRounded(Rat(g_calls[k].q, 4))

\* the fourth chorus bar is complete: four kicks, and the snare fill at
\* beat 3.75 of the bar placed at 82687 samples after beat 12
C7_Witness ==
    /\ InDrumChorus
    /\ g_beats = 32
    /\ Cardinality(CallsOf("kick")) = 4
    /\ Len(g_calls) = 18
    /\ g_calls[18].voice = "snare"
    /\ g_calls[18].q = 63
    /\ g_calls[18].start = 12 * 22050 + 82687

\* a drum section generated with its own beat count
DefaultDrumSection ==
    /\ g_instr = "drums"
    /\ g_beats = (CASE g_section = "intro" -> 16
                    [] g_section = "verse" -> 32
                    [] g_section = "chorus" -> 32
                    [] OTHER -> 16)

\* C17: in the four drum sections with their default beat counts (the
\* chorus with its snare fills), every place_sound call has
\* 0 <= start < len(track) and start + len(sound) <= len(track): no hit is
\* truncated or placed outside the track, and no call raises.
C17_NoDrumHitTruncated ==
    DefaultDrumSection =>
        /\ g_pc # "failed"
        /\ g_len = g_beats * 22050
        /\ \A k \in 1..Len(g_calls) :
            /\ g_calls[k].start >= 0
            /\ g_calls[k].start < g_len
            /\ g_calls[k].start + g_calls[k].len <= g_len
            /\ g_calls[k].len > 0

\* the last call of the chorus, the closest any hit comes to the end: the
\* fill's snare at beat 31.75 ends 221 samples before the track does
C17_Witness ==
    /\ DefaultDrumSection
    /\ g_section = "chorus"
    /\ g_pc = "done"
    /\ g_calls # <<>>
    /\ g_calls[Len(g_calls)].voice = "snare"
    /\ g_calls[Len(g_calls)].start = 700087
    /\ g_calls[Len(g_calls)].start + g_calls[Len(g_calls)].len = 705600 - 221

(***************************************************************************)
(* The renderers: generate_drums.py normalize_and_convert, generate_synths *)
(* save_wav, and generate_bass.py's normalization followed by save_wav.    *)
(***************************************************************************)
MaxBuf == 3         \* longest buffer rendered

\* the 1e-9 generate_bass.py adds to the peak
EPSILON == <<1, 1000000000>>

\* the sample values the buffers are drawn from
SampleValues == {<<-2, 1>>, <<-1, 1>>, <<-1, 2>>, <<0, 1>>, <<1, 2>>, <<1, 1>>, <<2, 1>>}

RECURSIVE SeqsUpTo(_, _)
SeqsUpTo(S, n) ==
    IF n = 0 THEN {<<>>}
    ELSE LET shorter == SeqsUpTo(S, n - 1)
         IN  shorter \cup {Append(q, x) : q \in {t \in shorter : Len(t) = n - 1}, x \in S}

Buffers == SeqsUpTo(SampleValues, MaxBuf)

\* np.max(np.abs(audio)) of a buffer that is not empty
RECURSIVE PeakFrom(_, _)
PeakFrom(audio, i) ==
    IF i > Len(audio) THEN RZero
    ELSE LET rest == PeakFrom(audio, i + 1)
         IN  IF RLeq(rest, RAbs(audio[i])) THEN RAbs(audio[i]) ELSE rest

Peak(audio) == PeakFrom(audio, 1)

\* np.max raises ValueError on a zero-size array
PeakRaises(audio) == Len(audio) = 0

\* a * m = q * b + r with 0 <= r < b, as <<q, r>>, computed by doubling so
\* that no intermediate value exceeds 2 * b
AddQR(x, y, b) ==
    IF x[2] >= b - y[2]
    THEN <<x[1] + y[1] + 1, x[2] - (b - y[2])>>
    ELSE <<x[1] + y[1], x[2] + y[2]>>

RECURSIVE MulDiv(_, _, _)
MulDiv(a, m, b) ==
    IF m = 0 THEN <<0, 0>>
    ELSE LET h == MulDiv(a, m \div 2, b)
             d == AddQR(h, h, b)
         IN  IF m % 2 = 1 THEN AddQR(d, <<a \div b, a % b>>, b) ELSE d

\* int(x * 32767), truncated toward zero
Scaled16(x) ==
    LET q == MulDiv(Abs(x[1]), 32767, x[2])[1]
    IN  IF x[1] < 0 THEN -q ELSE q

\* the conversion to np.int16 keeps the low 16 bits of the integer
Wrap16(v) == ((v + 32768) % 65536) - 32768

\* (audio * 32767).astype(np.int16), np.int16(audio * 32767)
Quantize(audio) == [i \in 1..Len(audio) |-> Wrap16(Scaled16(audio[i]))]

\* drums scaling with the division by the peak turned into a product
DrumsScaleTimesPeak(x, peak) == RMul(RMul(x, peak), <<9, 10>>)

\* generate_drums.py: track / np.max(np.abs(track)) * 0.9, one sample
DrumsScale(x, peak) == RMul(RDiv(x, peak), <<9, 10>>)

\* generate_drums.py normalize_and_convert, before the conversion
DrumsNormalize(track) ==
    IF RLess(RZero, Peak(track))
    THEN [i \in 1..Len(track) |-> DrumsScale(track[i], Peak(track))]
    ELSE track

\* generate_synths.py save_wav: audio * (0.7 / peak) when peak > 0
SynthNormalize(audio) ==
    IF RLess(RZero, Peak(audio))
    THEN [i \in 1..Len(audio) |-> RMul(audio[i], RDiv(<<7, 10>>, Peak(audio)))]
    ELSE audio

\* generate_bass.py: audio / (np.max(np.abs(audio)) + 1e-9) * ceiling
BassNormalize(audio, ceiling) ==
    [i \in 1..Len(audio) |->
        RMul(RDiv(audio[i], RAdd(Peak(audio), EPSILON)), ceiling)]

\* save_wav of generate_bass.py with the clipping left out
BassNoClip(audio) == audio

\* generate_bass.py save_wav: np.clip(audio, -1.0, 1.0)
BassClip(audio) ==
    [i \in 1..Len(audio) |->
        IF audio[i][1] > audio[i][2] THEN ROne
        ELSE IF audio[i][1] < -audio[i][2] THEN RNeg(ROne)
        ELSE audio[i]]

\* the ceilings of generate_bass.py: verse 0.8, chorus 0.85, outro 0.7
BassCeilings == {<<4, 5>>, <<17, 20>>, <<7, 10>>}

\* a renderer is handed a buffer; "bass" is the normalization of the verse,
\* chorus and outro followed by save_wav, "bass_save" is save_wav alone, as
\* the bass intro calls it
InitRender ==
    /\ r_who \in {"drums", "synth", "bass", "bass_save"}
    /\ r_in \in Buffers
    /\ r_ceiling \in CASE r_who = "drums" -> {<<9, 10>>}
                      [] r_who = "synth" -> {<<7, 10>>}
                      [] r_who = "bass" -> BassCeilings
                      [] OTHER -> {ROne}
    /\ r_norm = <<>>
    /\ r_pre = <<>>
    /\ r_out = <<>>
    /\ r_raised = FALSE
    /\ r_pc = "call"
    /\ SubmitIdle /\ PlaceIdle /\ EnvIdle /\ GenIdle /\ OthersIdle

\* what a renderer leaves when np.max raises
RenderRaises ==
    /\ r_raised' = TRUE
    /\ UNCHANGED <<r_norm, r_pre, r_out>>

Rendered(norm, pre) ==
    /\ r_norm' = norm
    /\ r_pre' = pre
    /\ r_out' = Quantize(pre)
    /\ r_raised' = FALSE

\* generate_drums.py normalize_and_convert(track)
DrumsRender ==
    /\ r_pc = "call"
    /\ r_who = "drums"
    /\ IF PeakRaises(r_in) THEN RenderRaises
       ELSE Rendered(DrumsNormalize(r_in), DrumsNormalize(r_in))
    /\ r_pc' = "done"
    /\ UNCHANGED <<r_who, r_in, r_ceiling, notRender>>

\* generate_synths.py save_wav(filename, audio)
SynthRender ==
    /\ r_pc = "call"
    /\ r_who = "synth"
    /\ IF PeakRaises(r_in) THEN RenderRaises
       ELSE Rendered(SynthNormalize(r_in), SynthNormalize(r_in))
    /\ r_pc' = "done"
    /\ UNCHANGED <<r_who, r_in, r_ceiling, notRender>>

\* generate_bass.py: audio = audio / (np.max(np.abs(audio)) + 1e-9) * c, then
\* save_wav(filename, audio)
BassRender ==
    /\ r_pc = "call"
    /\ r_who = "bass"
    /\ IF PeakRaises(r_in) THEN RenderRaises
       ELSE Rendered(BassNormalize(r_in, r_ceiling),
                     BassClip(BassNormalize(r_in, r_ceiling)))
    /\ r_pc' = "done"
    /\ UNCHANGED <<r_who, r_in, r_ceiling, notRender>>

\* generate_bass.py save_wav(filename, audio)
BassSaveWav ==
    /\ r_pc = "call"
    /\ r_who = "bass_save"
    /\ Rendered(r_in, BassClip(r_in))
    /\ r_pc' = "done"
    /\ UNCHANGED <<r_who, r_in, r_ceiling, notRender>>

NextRender == DrumsRender \/ SynthRender \/ BassRender \/ BassSaveWav

SpecRender == InitRender /\ [][NextRender]_vars

\* a renderer with a normalization step has returned
Normalized == r_pc = "done" /\ ~r_raised /\ r_who \in {"drums", "synth", "bass"}

\* every sample of the normalized buffer is the input sample times factor
ScaledBy(factor) ==
    /\ Len(r_norm) = Len(r_in)
    /\ \A i \in 1..Len(r_in) : r_norm[i] = RMul(r_in[i], factor)

\* C8 as claimed: in each renderer (bass, drums, synth), normalizing a buffer
\* of peak p > 0 against the ceiling c multiplies every sample by exactly
\* c / p, so that the normalized peak is c; p = 2.0 and c = 0.7 give 0.35.
C8_ScaledByCeilingOverPeak ==
    (Normalized /\ RLess(RZero, Peak(r_in))) =>
        /\ ScaledBy(RDiv(r_ceiling, Peak(r_in)))
        /\ Peak(r_norm) = r_ceiling
        /\ (Peak(r_in) = <<2, 1>> /\ r_ceiling = <<7, 10>>) => ScaledBy(<<7, 20>>)

\* C8 as amended: the drums and the synth renderer multiply every sample by
\* exactly c / p, so that the normalized peak is c (p = 2.0 and c = 0.7 give
\* 0.35); the bass normalization divides by p + 1e-9, which multiplies every
\* sample by c / (p + 1e-9) and leaves the peak strictly below c.
C8_ScaledExactlyButForBass ==
    (Normalized /\ RLess(RZero, Peak(r_in))) =>
        IF r_who = "bass"
        THEN /\ ScaledBy(RDiv(r_ceiling, RAdd(Peak(r_in), EPSILON)))
             /\ RDiv(Peak(r_norm), r_ceiling)[1] < RDiv(Peak(r_norm), r_ceiling)[2]
             /\ RLess(RZero, Peak(r_norm))
        ELSE /\ ScaledBy(RDiv(r_ceiling, Peak(r_in)))
             /\ Peak(r_norm) = r_ceiling
             /\ (Peak(r_in) = <<2, 1>> /\ r_ceiling = <<7, 10>>) =>
                    ScaledBy(<<7, 20>>)

\* the synth renderer given a buffer of peak 2.0: the sample 2.0 becomes 0.7,
\* the sample -1.0 becomes -0.35
C8_Witness ==
    /\ Normalized
    /\ r_who = "synth"
    /\ r_in = << <<2, 1>>, <<-1, 1>>, <<1, 2>> >>
    /\ r_norm = << <<7, 10>>, <<-7, 20>>, <<7, 40>> >>

\* C9: in every renderer (drums normalize_and_convert, synth save_wav, the
\* bass normalization), an all-zero buffer and a zero-length buffer are
\* normalized without raising, to an all-zero output of the same length.
C9_SilentBufferNeverRaises ==
    (r_pc = "done" /\ r_who \in {"drums", "synth", "bass"}
        /\ \A i \in 1..Len(r_in) : r_in[i] = RZero) =>
        /\ ~r_raised
        /\ r_out = Zeros(Len(r_in))

\* C9 for the buffers the code does handle: all-zero, at least one sample
C9_ZeroBufferOfSomeLength ==
    (r_pc = "done" /\ Len(r_in) > 0 /\ \A i \in 1..Len(r_in) : r_in[i] = RZero) =>
        /\ ~r_raised
        /\ r_out = Zeros(Len(r_in))

\* C10: whatever buffer a renderer is handed, when it returns every sample
\* is within [-1, 1] before quantization, the output has the input's length
\* and every 16-bit sample is the truncated sample x 32767 itself, within
\* [-32767, 32767]: nothing wraps around.
C10_QuantizedInRange ==
    (r_pc = "done" /\ ~r_raised) =>
        /\ Len(r_out) = Len(r_in)
        /\ Len(r_pre) = Len(r_in)
        /\ \A i \in 1..Len(r_out) :
            /\ Abs(r_pre[i][1]) <= r_pre[i][2]
            /\ r_out[i] = Scaled16(r_pre[i])
            /\ r_out[i] >= -32767 /\ r_out[i] <= 32767

\* bass save_wav handed samples beyond full scale: 2.0 is written as 32767,
\* -2.0 as -32767
C10_Witness ==
    /\ r_pc = "done"
    /\ r_who = "bass_save"
    /\ r_in = << <<2, 1>>, <<-2, 1>>, <<1, 2>> >>
    /\ r_out = <<32767, -32767, 16383>>

(***************************************************************************)
(* The low-pass filter: generate_bass.py low_pass_filter and               *)
(* generate_synths.py lowpass_filter.  scipy's butter designs the digital  *)
(* filter and raises ValueError unless 0 < Wn < 1; lfilter returns as many *)
(* samples as it is given.                                                 *)
(***************************************************************************)
MaxFilterLen == 3   \* longest signal filtered

\* the filter's order argument (order=4)
FilterOrder == 4

\* the clamp: 0.99 of the Nyquist frequency
CLAMP == <<99, 100>>

RMin(a, b) == IF RLeq(a, b) THEN a ELSE b

\* nyq = sample_rate / 2.0 (bass), 0.5 * sr (synth)
Nyquist(sr) == Rat(sr, 2)

\* the clamp left out: cutoff / nyq
NormCutoffUnclamped(cutoff, sr) == RDiv(cutoff, Nyquist(sr))

\* normalized_cutoff = min(cutoff / nyq, 0.99)
NormCutoff(cutoff, sr) == RMin(RDiv(cutoff, Nyquist(sr)), CLAMP)

\* butter(order, Wn, btype='low'): ValueError unless 0 < Wn < 1
ButterRaises(wn) == ~(RLess(RZero, wn) /\ RLess(wn, ROne))

\* low_pass_filter(signal, cutoff, sample_rate) on a signal of signal_len
\* samples: the order and cutoff butter is given, whether it raised, and
\* the length of lfilter(b, a, signal)
low_pass_filter(signal_len, cutoff, sample_rate) ==
    LET wn == NormCutoff(cutoff, sample_rate) IN
    [order |-> FilterOrder, norm |-> wn, raised |-> ButterRaises(wn),
     len |-> IF ButterRaises(wn) THEN 0 ELSE signal_len]

\* generate_synths.py lowpass_filter: the same body
lowpass_filter(signal_len, cutoff, sr) ==
    LET wn == NormCutoff(cutoff, sr) IN
    [order |-> FilterOrder, norm |-> wn, raised |-> ButterRaises(wn),
     len |-> IF ButterRaises(wn) THEN 0 ELSE signal_len]

\* cutoffs in Hz: none, negative, the sweeps' and the bass patterns' range,
\* around 0.99 x Nyquist (21829.5 Hz at 44100), Nyquist and beyond
Cutoffs == {<<-100, 1>>, <<0, 1>>, <<1, 1>>, <<400, 1>>, <<2500, 1>>,
            <<21829, 1>>, <<43659, 2>>, <<21830, 1>>, <<22050, 1>>,
            <<30000, 1>>}

InitFilter ==
    /\ f_which \in {"bass", "synth"}
    /\ f_args \in [len : 0..MaxFilterLen, cutoff : Cutoffs, sr : {SAMPLE_RATE}]
    /\ f_norm = <<0, 1>>
    /\ f_len = 0
    /\ f_raised = FALSE
    /\ f_pc = "call"
    /\ SubmitIdle /\ PlaceIdle /\ EnvIdle /\ GenIdle /\ RenderIdle
    /\ SweepIdle /\ OscIdle /\ VoiceIdle

Filtered(r) ==
    /\ f_norm' = r.norm
    /\ f_len' = r.len
    /\ f_raised' = r.raised
    /\ f_pc' = "done"
    /\ UNCHANGED <<f_which, f_args, notFilter>>

BassFilter ==
    /\ f_pc = "call"
    /\ f_which = "bass"
    /\ Filtered(low_pass_filter(f_args.len, f_args.cutoff, f_args.sr))

SynthFilter ==
    /\ f_pc = "call"
    /\ f_which = "synth"
    /\ Filtered(lowpass_filter(f_args.len, f_args.cutoff, f_args.sr))

NextFilter == BassFilter \/ SynthFilter

SpecFilter == InitFilter /\ [][NextFilter]_vars

\* C12: for every cutoff frequency (above 0 Hz) a caller requests, both
\* filters hand butter the order 4 and the normalized cutoff
\* min(cutoff / Nyquist, 0.99), which never exceeds 0.99, butter accepts
\* it, and the returned buffer has the input's length.
C12_CutoffClamped ==
    (f_pc = "done" /\ RLess(RZero, f_args.cutoff)) =>
        LET ratio == RDiv(f_args.cutoff, Rat(f_args.sr, 2)) IN
        /\ f_norm = (IF RLess(ratio, CLAMP) THEN ratio ELSE CLAMP)
        /\ RLeq(f_norm, CLAMP)
        /\ ~f_raised
        /\ f_len = f_args.len

\* a cutoff above Nyquist is designed at 0.99 and the signal keeps its length
C12_Witness ==
    /\ f_pc = "done"
    /\ f_args.cutoff = <<30000, 1>>
    /\ f_args.len = MaxFilterLen
    /\ f_norm = <<99, 100>>
    /\ f_len = MaxFilterLen
    /\ ~f_raised

(***************************************************************************)
(* The chunked filter sweep of generate_synths.py generate_intro and       *)
(* generate_outro.  The samples and the LFO's sine are not computed: a     *)
(* chunk is known by the indices it reads, the LFO index its cutoff is     *)
(* taken at, and the indices it stores the filter's output at.             *)
(***************************************************************************)
\* the lookback window: pad[max(0, i - 1000):i]
LOOKBACK == 1000

SweepSections == {"intro", "outro"}

\* pad lengths: the sections' n = int(16 * BEAT_DUR * SAMPLE_RATE), and
\* shorter pads whose last chunk is partial or whose lookback is cut short
SweepLengths == {TotalSamples(16), 1, LOOKBACK, ChunkSize - 1, ChunkSize,
                 ChunkSize + 1, 2 * ChunkSize + LOOKBACK,
                 3 * ChunkSize - 1}

\* cutoff = base + depth * lfo[...]: 800 + 1700 (intro), 600 + 1400 (outro)
SweepBase(section) == IF section = "intro" THEN 800 ELSE 600
SweepDepth(section) == IF section = "intro" THEN 1700 ELSE 1400

\* mid = i
SweepMidAtStart(i, end) == i

\* mid = (i + end) // 2
SweepMid(i, end) == (i + end) \div 2

\* the index the LFO is read at: lfo[min(mid, n - 1)]; the intro reads it
\* only `if mid < n` and otherwise takes the base cutoff (-1: not read)
LfoIndex(section, mid, n) ==
    IF section = "intro" /\ ~(mid < n) THEN -1 ELSE Min2(mid, n - 1)

\* the first index of x[-(k):] in a buffer of len samples
TailStart(len, k) == SliceBound(-k, len)

\* one iteration of the loop at index i of a pad of n samples
SweepChunkOf(section, n, i) ==
    LET end == Min2(i + ChunkSize, n)
        chunk_len == SliceLen(n, i, end)
        mid == SweepMid(i, end)
        prefix_from == SliceBound(Max2(0, i - LOOKBACK), n)
        prefix_len == SliceLen(n, Max2(0, i - LOOKBACK), i)
        \* lfo lies in [0, 1]: the cutoff is at least the base
        flt == lowpass_filter(prefix_len + chunk_len, RInt(SweepBase(section)),
                              SAMPLE_RATE)
        kept_from == TailStart(flt.len, end - i)
        kept_len == flt.len - kept_from
        dest_len == SliceLen(n, i, end)
    IN  [i |-> i, end |-> end, mid |-> mid,
         lfo_index |-> LfoIndex(section, mid, n),
         base |-> SweepBase(section), depth |-> SweepDepth(section),
         in_from |-> prefix_from, in_len |-> prefix_len + chunk_len,
         out_len |-> flt.len, kept_from |-> kept_from, kept_len |-> kept_len,
         dest_from |-> SliceBound(i, n), dest_len |-> dest_len,
         \* filtered[i:end] = ...: ValueError unless the lengths agree or
         \* the right-hand side has one sample
         raised |-> flt.raised \/ (kept_len # dest_len /\ kept_len # 1)]

InitSweep ==
    /\ w_section \in SweepSections
    /\ w_n \in SweepLengths
    /\ w_i = 0
    /\ w_chunks = <<>>
    /\ w_pc = "loop"
    /\ SubmitIdle /\ PlaceIdle /\ EnvIdle /\ GenIdle /\ RenderIdle
    /\ OscIdle /\ VoiceIdle /\ FilterIdle

\* the body of `for i in range(0, n, chunk_size)`
SweepChunk ==
    /\ w_pc = "loop"
    /\ w_i < w_n
    /\ LET c == SweepChunkOf(w_section, w_n, w_i) IN
        /\ w_chunks' = Append(w_chunks, c)
        /\ w_pc' = IF c.raised THEN "failed" ELSE "loop"
    /\ w_i' = w_i + ChunkSize
    /\ UNCHANGED <<w_section, w_n, notSweep>>

\* the range is exhausted: save_wav, return filtered
SweepFinish ==
    /\ w_pc = "loop"
    /\ w_i >= w_n
    /\ w_pc' = "done"
    /\ UNCHANGED <<w_section, w_n, w_i, w_chunks, notSweep>>

NextSweep == SweepChunk \/ SweepFinish

SpecSweep == InitSweep /\ [][NextSweep]_vars

\* how many chunks stored a sample at index j of filtered
TimesWritten(j) ==
    Cardinality({k \in 1..Len(w_chunks) :
        /\ w_chunks[k].dest_from <= j
        /\ j < w_chunks[k].dest_from + w_chunks[k].dest_len})

\* C11: in the chunked filter sweep of the synth intro and outro, the chunks
\* of 4410 samples partition [0, n) (each starts where the previous one ends,
\* the first at 0, the last ends at n, so every output sample is written
\* exactly once); each chunk's cutoff is taken from the LFO at the chunk's
\* midpoint index (i + end) // 2; the filter input is the chunk prefixed by
\* the min(i, 1000) samples before it; exactly the last end - i filtered
\* samples are stored at [i, end), so the output has the input's length.
C11_ChunksPartition ==
    /\ w_pc # "failed"
    /\ \A k \in 1..Len(w_chunks) :
        LET c == w_chunks[k] IN
        /\ c.i = (k - 1) * 4410
        /\ c.i = (IF k = 1 THEN 0 ELSE w_chunks[k - 1].end)
        /\ c.end = Min2(c.i + 4410, w_n) /\ c.end > c.i
        /\ c.dest_from = c.i /\ c.dest_len = c.end - c.i
        /\ c.mid = (c.i + c.end) \div 2
        /\ c.lfo_index = c.mid
        /\ c.in_from = c.i - Min2(c.i, 1000)
        /\ c.in_len = Min2(c.i, 1000) + (c.end - c.i)
        /\ c.out_len = c.in_len
        /\ c.kept_len = c.end - c.i
        /\ c.in_from + c.kept_from = c.i
        /\ ~c.raised
    /\ w_pc = "done" =>
        /\ Len(w_chunks) > 0
        /\ w_chunks[Len(w_chunks)].end = w_n
        /\ w_n <= 3 * 4410 => \A j \in 0..(w_n - 1) : TimesWritten(j) = 1

\* the intro's sweep has run to its end: 80 chunks of 4410 samples, the
\* last one filtered behind 1000 samples of lookback
C11_Witness ==
    /\ w_pc = "done"
    /\ w_section = "intro"
    /\ w_n = 352800
    /\ Len(w_chunks) = 80
    /\ w_chunks[80].i = 348390 /\ w_chunks[80].end = 352800
    /\ w_chunks[80].in_len = 5410 /\ w_chunks[80].kept_from = 1000
    /\ w_chunks[80].lfo_index = 350595

(***************************************************************************)
(* The sawtooth oscillators: generate_bass.py sawtooth_wave and            *)
(* generate_synths.py saw_wave.                                            *)
(***************************************************************************)
MaxOscLen == 5      \* longest waveform generated

\* np.floor
RFloor(x) == x[1] \div x[2]

\* np.linspace(0, stop, num, endpoint=False): num points stop / num apart
LinspaceOpen(stop, num) == [k \in 1..num |-> RMul(Rat(k - 1, num), stop)]

\* np.arange(num) / sr; np.arange of a negative count is empty
ArangeOver(num, sr) == [k \in 1..Max2(num, 0) |-> Rat(k - 1, sr)]

\* 2.0 * (t * freq - np.floor(0.5 + t * freq))
BassSaw(t, freq) ==
    LET x == RMul(t, freq) IN
    RMul(RInt(2), RSub(x, RInt(RFloor(RAdd(<<1, 2>>, x)))))

\* x % 1.0: numpy's remainder takes the sign of the divisor
Mod1(x) == RSub(x, RInt(RFloor(x)))

\* 2.0 * (t * freq % 1.0) - 1.0
SynthSaw(t, freq) == RSub(RMul(RInt(2), Mod1(RMul(t, freq))), ROne)

\* the sample count rounded up: int(sample_rate * duration) + 1
SamplesPlusOne(duration, sample_rate) == ToSamples(duration, sample_rate) + 1

\* int(sample_rate * duration)
OscSamples(duration, sample_rate) == ToSamples(duration, sample_rate)

\* generate_bass.py sawtooth_wave: np.linspace raises ValueError for a
\* negative number of samples
sawtooth_wave(freq, duration, sample_rate) ==
    LET num == OscSamples(duration, sample_rate) IN
    IF num < 0
    THEN [t |-> <<>>, wave |-> <<>>, raised |-> "ValueError"]
    ELSE LET t == LinspaceOpen(duration, num) IN
         [t |-> t, wave |-> [k \in 1..num |-> BassSaw(t[k], freq)],
          raised |-> "none"]

\* generate_synths.py saw_wave
saw_wave(freq, duration, sr) ==
    LET t == ArangeOver(OscSamples(duration, sr), sr) IN
    [t |-> t, wave |-> [k \in 1..Len(t) |-> SynthSaw(t[k], freq)],
     raised |-> "none"]

Oscillators == {"sawtooth_wave", "saw_wave"}

\* frequencies in Hz: negative, none, and valid ones (65.41 is the bass C2)
OscFreqs == {<<-1, 1>>, <<0, 1>>, <<1, 1>>, <<3, 2>>, <<2, 1>>, <<5, 1>>,
             <<6541, 100>>, <<441, 1>>, <<11025, 1>>}

\* durations in seconds: negative, none, and valid ones
OscDurations == {<<-1, 10>>, <<0, 1>>, <<1, 88200>>, <<1, 29400>>,
                 <<1, 11025>>, <<1, 20>>, <<17, 100>>, <<1, 4>>, <<1, 2>>}

OscRates == {ModelRate, SAMPLE_RATE}

InitOsc ==
    /\ o_fn \in Oscillators
    /\ o_args \in {a \in [freq : OscFreqs, duration : OscDurations, sr : OscRates] :
                      ToSamples(a.duration, a.sr) <= MaxOscLen}
    /\ o_t = <<>>
    /\ o_wave = <<>>
    /\ o_raised = "none"
    /\ o_pc = "call"
    /\ SubmitIdle /\ PlaceIdle /\ EnvIdle /\ GenIdle /\ RenderIdle
    /\ SweepIdle /\ VoiceIdle /\ FilterIdle

Returned(r) ==
    /\ o_t' = r.t
    /\ o_wave' = r.wave
    /\ o_raised' = r.raised
    /\ o_pc' = "done"
    /\ UNCHANGED <<o_fn, o_args, notOsc>>

SawtoothWave ==
    /\ o_pc = "call"
    /\ o_fn = "sawtooth_wave"
    /\ Returned(sawtooth_wave(o_args.freq, o_args.duration, o_args.sr))

SawWave ==
    /\ o_pc = "call"
    /\ o_fn = "saw_wave"
    /\ Returned(saw_wave(o_args.freq, o_args.duration, o_args.sr))

NextOsc == SawtoothWave \/ SawWave

SpecOsc == InitOsc /\ [][NextOsc]_vars

\* a parameter the interface calls invalid: a non-positive frequency,
\* duration or sample count
InvalidParameters ==
    \/ RLeq(o_args.freq, RZero)
    \/ RLeq(o_args.duration, RZero)
    \/ ToSamples(o_args.duration, o_args.sr) <= 0

\* C13: an oscillator called with a non-positive duration, frequency or
\* sample count fails with an InvalidParameter error and returns no buffer,
\* never an empty one.
C13_InvalidParameterFails ==
    (o_pc = "done" /\ InvalidParameters) =>
        /\ o_raised = "InvalidParameter"
        /\ o_wave = <<>> /\ o_t = <<>>


\* round(x), halves to the even neighbour
RoundHalfEven(x) ==
    LET f == x[1] \div x[2]
        twice == 2 * (x[1] % x[2])
    IN  IF twice < x[2] THEN f
        ELSE IF twice > x[2] THEN f + 1
        ELSE IF f % 2 = 0 THEN f ELSE f + 1

\* 2 * (t * f - floor(0.5 + t * f))
CenteredSaw(t, f) ==
    LET x == RMul(t, f)
        h == RAdd(x, <<1, 2>>)
    IN  RMul(<<2, 1>>, RSub(x, <<h[1] \div h[2], 1>>))

\* 2 * (t * f - floor(t * f)) - 1
RisingSaw(t, f) ==
    LET x == RMul(t, f) IN
    RSub(RMul(<<2, 1>>, RSub(x, <<x[1] \div x[2], 1>>)), <<1, 1>>)

ValidCall ==
    /\ o_pc = "done"
    /\ RLess(RZero, o_args.freq)
    /\ RLess(RZero, o_args.duration)

InSawRange(x) == RLeq(<<-1, 1>>, x) /\ RLess(x, <<1, 1>>)

VoiceRate == 25     \* the sample_rate argument of the voices

Voices == {"kick", "snare", "hihat_closed", "hihat_open"}

\* the values np.random.randn may return (any real; three stand for them)
NoiseValues == {-1, 0, 1}

\* len(t), t = np.linspace(0, duration, int(sample_rate * duration), endpoint=False)
VoiceSamples(voice, sample_rate) == ToSamples(VoiceDuration(voice), sample_rate)

\* np.random.randn(len(t)): the generator is never seeded
Randn(n) == [1..n -> NoiseValues]

\* np.diff(noise, prepend=0)
DiffPrepend0(noise) ==
    [k \in 1..Len(noise) |-> noise[k] - (IF k = 1 THEN 0 ELSE noise[k - 1])]

\* generate_kick: np.sin(phase) * envelope * 0.85 + click * 0.15, no noise
generate_kick(sample_rate) ==
    [k \in 1..VoiceSamples("kick", sample_rate) |-> [index |-> k, noise |-> 0]]

\* generate_snare: noise * noise_env * 0.6 + tone * 0.4
generate_snare(sample_rate, noise) ==
    [k \in 1..Len(noise) |-> [index |-> k, noise |-> noise[k]]]

\* generate_hihat_closed, generate_hihat_open: hp_noise * envelope
generate_hihat(sample_rate, noise) ==
    LET hp_noise == DiffPrepend0(noise) IN
    [k \in 1..Len(noise) |-> [index |-> k, noise |-> hp_noise[k]]]

\* one call of the voice's generator, given what randn returns in it
GenerateVoice(voice, sample_rate, noise) ==
    CASE voice = "kick" -> generate_kick(sample_rate)
      [] voice = "snare" -> generate_snare(sample_rate, noise)
      [] OTHER -> generate_hihat(sample_rate, noise)

InitVoice ==
    /\ v_voice \in Voices
    /\ v_rate = VoiceRate
    /\ v_runs = <<>>
    /\ v_pc = "run"
    /\ SubmitIdle /\ PlaceIdle /\ EnvIdle /\ GenIdle /\ RenderIdle
    /\ SweepIdle /\ OscIdle /\ FilterIdle

\* one run of the generator
RunVoice ==
    /\ v_pc = "run"
    /\ Len(v_runs) < 2
    /\ \E noise \in Randn(VoiceSamples(v_voice, v_rate)) :
        v_runs' = Append(v_runs, GenerateVoice(v_voice, v_rate, noise))
    /\ UNCHANGED <<v_voice, v_rate, v_pc, notVoice>>

\* both runs have returned
RunsDone ==
    /\ v_pc = "run"
    /\ Len(v_runs) = 2
    /\ v_pc' = "done"
    /\ UNCHANGED <<v_voice, v_rate, v_runs, notVoice>>

NextVoice == RunVoice \/ RunsDone

SpecVoice == InitVoice /\ [][NextVoice]_vars

\* C15: two runs of the same generator with the same constants, the drum
\* voices kick, snare, closed and open hi-hat included, return
\* sample-for-sample identical buffers.
C15_RunsIdentical ==
    v_pc = "done" =>
        /\ Len(v_runs[1]) = Len(v_runs[2])
        /\ \A k \in 1..Len(v_runs[1]) : v_runs[1][k] = v_runs[2][k]

(***************************************************************************)
(* The submitters.                                                         *)
(***************************************************************************)
\* each script lists four sections: intro, verse, chorus, outro
NumSections == 4

Submitters == {"bass", "drums", "synth"}

\* what the environment does to one submission:
\*   ok          HTTP 200, JSON body with a non-empty data.submitTrack
\*               that has the "id" and "status" the mutation asks for
\*   partial     HTTP 200, JSON body with a non-empty data.submitTrack
\*               that lacks "id" or "status"
\*   gql_errors  HTTP 200, JSON body with an "errors" key
\*   no_track    HTTP 200, JSON body with neither "errors" nor data.submitTrack
\*   malformed   HTTP 200, body that is not the JSON the API promises
\*   http_error  a 4xx/5xx status
\*   net_error   no HTTP exchange: connection refused, DNS failure, timeout
\*   no_file     the section's WAV file cannot be opened
Outcomes == {"ok", "partial", "gql_errors", "no_track", "malformed",
             "http_error", "net_error", "no_file"}

\* submit_bass.py submit_track: "True", "False", or "raised" when the
\* exception leaves the function (open() is outside the try block); the
\* KeyError of track['id'] or track['status'] is caught by `except Exception`
submit_track(outcome) ==
    CASE outcome = "no_file" -> "raised"
      [] outcome = "ok" -> "True"
      [] OTHER -> "False"

\* submit_drums.py loop body: requests.post returns a response for every
\* HTTP status and raises requests.ConnectionError/Timeout when there is no
\* exchange; nothing catches it.  The response is printed, never examined.
drums_submit(outcome) ==
    CASE outcome \in {"no_file", "net_error"} -> "raised"
      [] OTHER -> "printed"

\* submit_synths.py loop body: urlopen raises HTTPError and URLError, both
\* caught and printed; the body is printed, never examined.
synths_submit(outcome) ==
    CASE outcome = "no_file" -> "raised"
      [] OTHER -> "printed"

SubmitOne(who, outcome) ==
    CASE who = "bass" -> submit_track(outcome)
      [] who = "drums" -> drums_submit(outcome)
      [] OTHER -> synths_submit(outcome)

InitSubmit ==
    /\ s_who \in Submitters
    /\ s_idx = 1
    /\ s_log = <<>>
    /\ s_success = 0
    /\ s_pc = "loop"
    /\ s_exit = -1
    /\ PlaceIdle /\ EnvIdle /\ GenIdle /\ RenderIdle /\ OthersIdle

\* one iteration of `for section in ...`: the section is submitted; an
\* exception nothing catches ends the process with a traceback, status 1
Submit(outcome) ==
    /\ s_pc = "loop"
    /\ s_idx <= NumSections
    /\ LET r == SubmitOne(s_who, outcome) IN
        /\ s_log' = Append(s_log, [outcome |-> outcome, result |-> r])
        /\ IF r = "raised"
           THEN /\ s_pc' = "exit"
                /\ s_exit' = 1
                /\ UNCHANGED <<s_idx, s_success>>
           ELSE /\ s_idx' = s_idx + 1
                /\ s_success' = IF r = "True" THEN s_success + 1 ELSE s_success
                /\ UNCHANGED <<s_pc, s_exit>>
    /\ UNCHANGED <<s_who, notSub>>

\* the list is exhausted
LoopDone ==
    /\ s_pc = "loop"
    /\ s_idx > NumSections
    /\ s_pc' = "summary"
    /\ UNCHANGED <<s_who, s_idx, s_log, s_success, s_exit, notSub>>

\* after the loop: submit_bass.py prints the count and calls sys.exit(1)
\* when success_count < len(SECTIONS); the other two scripts print (drums)
\* or do nothing (synth) and end with status 0
Summary ==
    /\ s_pc = "summary"
    /\ s_pc' = "exit"
    /\ s_exit' = IF s_who = "bass" /\ s_success < NumSections THEN 1 ELSE 0
    /\ UNCHANGED <<s_who, s_idx, s_log, s_success, notSub>>

NextSubmit ==
    \/ \E outcome \in Outcomes : Submit(outcome)
    \/ LoopDone
    \/ Summary

SpecSubmit == InitSubmit /\ [][NextSubmit]_vars

\* the failures the interface description names: an HTTP status error, a
\* transport error, a malformed response
ReportedFailures == {"http_error", "net_error", "malformed"}

\* C1: in every submitter, a section whose submission fails with an HTTP
\* status error, a network error or a malformed response is handled for that
\* item (no exception leaves the loop body) and the loop goes on to the next
\* section: when the process has ended, a failed section that is not the
\* last one is followed by the attempt of the next one.
C1_FailureDoesNotAbort ==
    \A i \in 1..Len(s_log) :
        s_log[i].outcome \in ReportedFailures =>
            /\ s_log[i].result # "raised"
            /\ (s_pc = "exit" /\ i < NumSections) => Len(s_log) > i

\* a submission failed: anything but an accepted track
Failed(i) == s_log[i].outcome # "ok"

\* C2: once the process has ended, its status is zero exactly when all
\* sections were attempted and none failed, and non-zero when at least one
\* submission failed.
C2_ExitStatusTellsFailure ==
    s_pc = "exit" =>
        (s_exit = 0 <=> /\ Len(s_log) = NumSections
                        /\ \A i \in 1..Len(s_log) : ~Failed(i))

\* the responses the claim counts as accepted: the HTTP call succeeded, the
\* body is JSON without an "errors" key and with a non-empty data.submitTrack
AcceptedResponses == {"ok", "partial"}

TrueResults == {i \in 1..Len(s_log) : s_log[i].result = "True"}

\* C18: in the bass submitter each of the four sections is submitted exactly
\* once, in list order, with no retry; submit_track returns True exactly
\* when the HTTP call succeeds and the body is JSON without an "errors" key
\* and with a non-empty data.submitTrack, and False for every other outcome;
\* the success count is the number of True results, between 0 and 4.
C18_BassSubmitsEachOnce ==
    s_who = "bass" =>
        /\ \A i \in 1..Len(s_log) :
            s_log[i].result =
                (IF s_log[i].outcome \in AcceptedResponses THEN "True" ELSE "False")
        /\ s_success = Cardinality(TrueResults)
        /\ s_success >= 0 /\ s_success <= 4
        /\ Len(s_log) <= 4
        /\ s_pc = "loop" => s_idx = Len(s_log) + 1
        /\ s_pc \in {"summary", "exit"} => Len(s_log) = 4

\* what the bass submitter does do: while every section's file can be read,
\* the sections are submitted once each and in order, and submit_track
\* returns True exactly for an accepted response that carries "id" and
\* "status"
C18_BassWhenFilesExist ==
    (s_who = "bass" /\ \A i \in 1..Len(s_log) : s_log[i].outcome # "no_file") =>
        /\ \A i \in 1..Len(s_log) :
            s_log[i].result = (IF s_log[i].outcome = "ok" THEN "True" ELSE "False")
        /\ s_success = Cardinality(TrueResults)
        /\ s_pc = "loop" => s_idx = Len(s_log) + 1
        /\ s_pc \in {"summary", "exit"} => Len(s_log) = 4

====
